---- MODULE Spec2Model ----
(***************************************************************************)
(* Clash-Aggregator (src/aggregator.py): node deduplication, the           *)
(* GeoDetector country cache, the subconverter fetch with fallbacks, and   *)
(* the classification / naming / output pipeline of main.                  *)
(*                                                                         *)
(* Python strings are sequences of one-character strings, so that          *)
(* formatting and concatenation are computed, not assumed.                 *)
(***************************************************************************)
EXTENDS Integers, Sequences, FiniteSets, TLC

VARIABLES
    pc,             \* position of the running function
    input,          \* deduplicate_nodes: the caller's argument of the first call
    nodes,          \* deduplicate_nodes: the sequence being iterated
    i,              \* deduplicate_nodes: index of the next entry of the for loop
    seen,           \* deduplicate_nodes: set of keys
    unique_nodes,   \* deduplicate_nodes: list being built
    results,        \* deduplicate_nodes: the values returned so far, in call order
    cache,          \* GeoDetector.cache: raw server value -> country code
    stats,          \* GeoDetector.stats: queries, cache_hits, sg_found
    dns_lookups,    \* socket.gethostbyname calls made by get_location, per server
    db_queries,     \* reader.city calls made by get_location, per server
    first_ret,      \* the value the first get_location call of a server returned
    last_call,      \* the latest get_location call: argument, outcome, what it did
    fetch_trace,    \* fetch_via_subconverter: the responses of the endpoints tried so far
    fetch_ret,      \* fetch_via_subconverter: whether it returned, and what
    urls,           \* main: the subscription URLs read from sources.txt
    all_nodes,      \* main: the fetched, then deduplicated nodes
    idx,            \* main: index of the next node of the location loop
    country_nodes,  \* main: country code -> nodes, in encountered order
    located,        \* main: oid of each node passed to get_location -> code returned
    renamed_nodes,  \* main
    sg_node_names,  \* main
    all_node_names, \* main
    output,         \* main: the configuration handed to yaml.dump
    clash_yaml,     \* the output file clash.yaml
    outcome         \* main: how the run ended, "running" until then

ddVars == <<input, nodes, i, seen, unique_nodes, results>>

geoVars == <<cache, stats, dns_lookups, db_queries, first_ret, last_call>>

fetchVars == <<fetch_trace, fetch_ret>>

mainVars == <<urls, all_nodes, idx, country_nodes, located, renamed_nodes, sg_node_names,
              all_node_names, output, clash_yaml, outcome>>

vars == <<pc, ddVars, geoVars, fetchVars, mainVars>>

(***************************************************************************)
(* Bounds                                                                  *)
(***************************************************************************)
MaxLen == 3
MaxQueries == 4
MaxNodes == 3
MaxLines == 1

(***************************************************************************)
(* Python values of a node's fields                                        *)
(***************************************************************************)
Absent == [t |-> "absent", s |-> <<>>, n |-> 0]

PyStr(chars) == [t |-> "str", s |-> chars, n |-> 0]

PyInt(k) == [t |-> "int", s |-> <<>>, n |-> k]

EmptyStr == PyStr(<<>>)

Digit(d) == <<"0", "1", "2", "3", "4", "5", "6", "7", "8", "9">>[d + 1]

RECURSIVE Digits(_)
Digits(k) == IF k < 10 THEN <<Digit(k)>> ELSE Digits(k \div 10) \o <<Digit(k % 10)>>

\* str(value) as the f-string of line 221 formats it
Format(v) == IF v.t = "int" THEN Digits(v.n) ELSE v.s

\* dict.get(field, ''): the default replaces a missing field only
Get(node, field) == IF node[field].t = "absent" THEN EmptyStr ELSE node[field]

\* key = f"{server}:{port}:{node_type}"
node_key(node) ==
    Format(Get(node, "server")) \o <<":">> \o Format(Get(node, "port"))
        \o <<":">> \o Format(Get(node, "type"))

\* not server / not port: Python truthiness of a field value
Falsy(v) == v.t = "absent" \/ (v.t = "str" /\ v.s = <<>>) \/ (v.t = "int" /\ v.n = 0)

(***************************************************************************)
(* deduplicate_nodes                                                       *)
(***************************************************************************)
Node(srv, prt, typ) ==
    [dict |-> TRUE, server |-> srv, port |-> prt, type |-> typ, name |-> PyStr(<<"n">>), oid |-> 0]

NonDict ==
    [dict |-> FALSE, server |-> Absent, port |-> Absent, type |-> Absent, name |-> Absent, oid |-> 0]

S_a == PyStr(<<"a">>)
S_a1 == PyStr(<<"a", ":", "1">>)
S_1 == PyStr(<<"1">>)
S_11 == PyStr(<<"1", ":", "1">>)
S_s == PyStr(<<"s">>)
S_h == PyStr(<<"h">>)
S_g == PyStr(<<"g">>)
S_ip == PyStr(<<"1", ".", "1">>)

DedupEntries ==
    {NonDict}
    \cup {Node(srv, prt, S_s) : srv \in {Absent, S_a, S_a1}, prt \in {Absent, PyInt(1), S_1, S_11}}
    \cup {Node(S_a, PyInt(1), Absent), Node(EmptyStr, PyInt(1), S_s)}

\* the entries of a list are distinct objects: oid is the object's identity
Tag(xs) == [k \in 1..Len(xs) |-> [xs[k] EXCEPT !.oid = k]]

SeqsUpTo(S, n) == UNION {[1..k -> S] : k \in 0..n}

\* one iteration of the for loop of lines 212-225
DedupStep_toggle(st, node) ==
    IF ~node.dict THEN st
    ELSE IF node_key(node) \notin st.seen
         THEN [seen |-> st.seen \cup {node_key(node)}, unique_nodes |-> Append(st.unique_nodes, node)]
         ELSE [seen |-> st.seen \ {node_key(node)}, unique_nodes |-> st.unique_nodes]

DedupStep(st, node) ==
    IF ~node.dict THEN st
    ELSE IF node_key(node) \notin st.seen
         THEN [seen |-> st.seen \cup {node_key(node)}, unique_nodes |-> Append(st.unique_nodes, node)]
         ELSE st

DedupStart == [seen |-> {}, unique_nodes |-> <<>>]

RECURSIVE DedupRun(_, _)
DedupRun(st, xs) == IF xs = <<>> THEN st ELSE DedupRun(DedupStep(st, Head(xs)), Tail(xs))

deduplicate_nodes(xs) == DedupRun(DedupStart, xs).unique_nodes

(***************************************************************************)
(* GeoDetector                                                             *)
(***************************************************************************)
SG == <<"S", "G">>
JP == <<"J", "P">>
US == <<"U", "S">>
UN == <<"U", "N">>

NoValue == <<>>

\* GeoDetector.__init__: empty cache, zeroed counters
NewDetector == [cache |-> <<>>, stats |-> [queries |-> 0, cache_hits |-> 0, sg_found |-> 0]]

IsDigit(c) == c \in {"0", "1", "2", "3", "4", "5", "6", "7", "8", "9"}

\* _is_ip: socket.inet_aton accepts one to four dot-separated numeric parts
\* and raises on anything that is not a string
_is_ip(server) ==
    /\ server.t = "str"
    /\ server.s # <<>>
    /\ \A k \in 1..Len(server.s) : IsDigit(server.s[k]) \/ server.s[k] = "."
    /\ server.s[1] # "." /\ server.s[Len(server.s)] # "."
    /\ \A k \in 1..(Len(server.s) - 1) : ~(server.s[k] = "." /\ server.s[k + 1] = ".")
    /\ Cardinality({k \in 1..Len(server.s) : server.s[k] = "."}) <= 3

\* what the environment answers to one call: name resolution, then the database
DnsAnswers == {"resolved", "gaierror"}

DbAnswers ==
    {[kind |-> "response", iso |-> c] : c \in {SG, JP, US, NoValue}}
    \cup {[kind |-> "AddressNotFoundError", iso |-> NoValue], [kind |-> "Exception", iso |-> NoValue]}

CacheSet(g, server, code) ==
    [g EXCEPT !.cache = [k \in DOMAIN g.cache \cup {server} |->
                            IF k = server THEN code ELSE g.cache[k]]]

Returned(g, value, dns, db) ==
    [cache |-> g.cache, stats |-> g.stats, ret |-> value, raised |-> FALSE,
     hit |-> FALSE, dns |-> dns, db |-> db]

\* lines 77-79: served from the cache
OnCacheHit(g, server) ==
    [Returned([g EXCEPT !.stats.cache_hits = @ + 1], g.cache[server], 0, 0)
        EXCEPT !.hit = TRUE]

\* lines 88-90: the bare except around the resolution
OnResolveFailure_nocache(g, server) == Returned(g, UN, 1, 0)

OnResolveFailure(g, server) == Returned(CacheSet(g, server, UN), UN, 1, 0)

\* lines 94-103: the database answered
OnResponse(g, server, iso, dns) ==
    LET country_code == IF iso = NoValue THEN UN ELSE iso
        g1 == CacheSet(g, server, country_code)
        g2 == IF country_code = SG THEN [g1 EXCEPT !.stats.sg_found = @ + 1] ELSE g1
    IN Returned(g2, country_code, dns, 1)

\* lines 105-111: the except clauses around the query
OnQueryError_narrow(g, server, kind, dns) ==
    IF kind = "AddressNotFoundError"
    THEN Returned(CacheSet(g, server, UN), UN, dns, 1)
    ELSE [Returned(g, NoValue, dns, 1) EXCEPT !.raised = TRUE]

OnQueryError(g, server, kind, dns) ==
    IF kind \in {"AddressNotFoundError", "Exception"}
    THEN Returned(CacheSet(g, server, UN), UN, dns, 1)
    ELSE [Returned(g, NoValue, dns, 1) EXCEPT !.raised = TRUE]

\* GeoDetector.get_location(server) on detector g, the environment answering
\* dnsAnswer to gethostbyname and dbAnswer to reader.city
get_location(g, server, dnsAnswer, dbAnswer) ==
    LET g0 == [g EXCEPT !.stats.queries = @ + 1]
        needDns == ~_is_ip(server)
        dns == IF needDns THEN 1 ELSE 0
    IN IF server \in DOMAIN g0.cache THEN OnCacheHit(g0, server)
       ELSE IF needDns /\ dnsAnswer = "gaierror" THEN OnResolveFailure(g0, server)
       ELSE IF dbAnswer.kind = "response" THEN OnResponse(g0, server, dbAnswer.iso, dns)
       ELSE OnQueryError(g0, server, dbAnswer.kind, dns)


GeoServers == {S_h, S_g, S_ip}

NoCall == [made |-> FALSE, server |-> EmptyStr, ret |-> NoValue, raised |-> FALSE, hit |-> FALSE,
           dns |-> 0, db |-> 0, prior |-> 0, hits_before |-> 0, hits_after |-> 0,
           dnsAnswer |-> "resolved", dbKind |-> "response", dbIso |-> NoValue]

Count(f, k) == IF k \in DOMAIN f THEN f[k] ELSE 0

Bump(f, k, d) == [x \in DOMAIN f \cup {k} |-> IF x = k THEN Count(f, k) + d ELSE f[x]]

\* the bookkeeping of one call: r is what get_location did
Observe(server, dnsAnswer, dbAnswer, r) ==
    /\ cache' = r.cache
    /\ stats' = r.stats
    /\ dns_lookups' = Bump(dns_lookups, server, r.dns)
    /\ db_queries' = Bump(db_queries, server, r.db)
    /\ first_ret' = IF server \in DOMAIN first_ret THEN first_ret
                    ELSE [x \in DOMAIN first_ret \cup {server} |->
                            IF x = server THEN [ret |-> r.ret, raised |-> r.raised] ELSE first_ret[x]]
    /\ last_call' = [made |-> TRUE, server |-> server, ret |-> r.ret, raised |-> r.raised,
                     hit |-> r.hit, dns |-> r.dns, db |-> r.db,
                     prior |-> IF server \in DOMAIN first_ret THEN 1 ELSE 0,
                     hits_before |-> stats.cache_hits, hits_after |-> r.stats.cache_hits,
                     dnsAnswer |-> dnsAnswer, dbKind |-> dbAnswer.kind, dbIso |-> dbAnswer.iso]

GeoIdle ==
    /\ cache = NewDetector.cache
    /\ stats = NewDetector.stats
    /\ dns_lookups = <<>>
    /\ db_queries = <<>>
    /\ first_ret = <<>>
    /\ last_call = NoCall

DedupIdle ==
    /\ input = <<>>
    /\ nodes = <<>>
    /\ i = 1
    /\ seen = {}
    /\ unique_nodes = <<>>
    /\ results = <<>>

(***************************************************************************)
(* fetch_via_subconverter                                                  *)
(***************************************************************************)
\* lines 168-172
endpoints == <<"https://sub.xeton.dev/sub", "https://api.dler.io/sub", "https://sub.id9.cc/sub">>

NotReturned == [returned |-> FALSE, value |-> <<>>]

\* what one endpoint answers: requests.get or yaml.safe_load raises, or a
\* status and a parsed document; sized tells whether len(data['proxies'])
\* is defined (a list) or not (null, a number)
RespRaises == [raises |-> TRUE, status |-> 0, has_proxies |-> FALSE, sized |-> FALSE, proxies |-> <<>>]

RespStatus(code) ==
    [raises |-> FALSE, status |-> code, has_proxies |-> FALSE, sized |-> FALSE, proxies |-> <<>>]

RespUnsized == [raises |-> FALSE, status |-> 200, has_proxies |-> TRUE, sized |-> FALSE, proxies |-> <<>>]

RespProxies(list) ==
    [raises |-> FALSE, status |-> 200, has_proxies |-> TRUE, sized |-> TRUE, proxies |-> list]

FailingResponses == {RespRaises, RespStatus(503), RespStatus(200), RespUnsized}

\* the body of the for loop, lines 176-202: what the iteration ends in
TryEndpoint_giveup(resp) ==
    IF resp.raises THEN [then |-> "continue", value |-> <<>>]
    ELSE IF resp.status # 200 THEN [then |-> "return", value |-> <<>>]
    ELSE IF ~resp.has_proxies THEN [then |-> "continue", value |-> <<>>]
    ELSE IF ~resp.sized THEN [then |-> "continue", value |-> <<>>]
    ELSE [then |-> "return", value |-> resp.proxies]

TryEndpoint(resp) ==
    IF resp.raises THEN [then |-> "continue", value |-> <<>>]      \* except: continue
    ELSE IF resp.status # 200 THEN [then |-> "continue", value |-> <<>>]
    ELSE IF ~resp.has_proxies THEN [then |-> "continue", value |-> <<>>]
    ELSE IF ~resp.sized THEN [then |-> "continue", value |-> <<>>] \* len() raises inside the try
    ELSE [then |-> "return", value |-> resp.proxies]

\* the whole call, the k-th endpoint answering resps[k]
RECURSIVE FetchFrom(_, _)
FetchFrom(k, resps) ==
    IF k > Len(endpoints) THEN <<>>
    ELSE IF TryEndpoint(resps[k]).then = "return" THEN TryEndpoint(resps[k]).value
    ELSE FetchFrom(k + 1, resps)

fetch_via_subconverter(resps) == FetchFrom(1, resps)

FetchPayloads == {<<>>, <<Node(S_h, PyInt(1), S_s)>>, <<Node(S_g, PyInt(1), S_s)>>}

FetchResponses == FailingResponses \cup {RespProxies(Tag(list)) : list \in FetchPayloads}

NoOutput == [proxies |-> <<>>, groups |-> <<>>, rules |-> <<>>]

Untouched == [state |-> "untouched", total |-> 0, singapore |-> 0, document |-> NoOutput]

FetchIdle ==
    /\ fetch_trace = <<>>
    /\ fetch_ret = NotReturned

MainIdle ==
    /\ urls = <<>>
    /\ all_nodes = <<>>
    /\ idx = 1
    /\ country_nodes = <<>>
    /\ located = <<>>
    /\ renamed_nodes = <<>>
    /\ sg_node_names = <<>>
    /\ all_node_names = <<>>
    /\ output = NoOutput
    /\ clash_yaml = Untouched
    /\ outcome = "running"

InitFetch ==
    /\ pc = "fetch_loop"
    /\ DedupIdle
    /\ GeoIdle
    /\ FetchIdle
    /\ MainIdle

\* one iteration of the loop over the endpoints
FetchTryEndpoint ==
    /\ pc = "fetch_loop"
    /\ Len(fetch_trace) < Len(endpoints)
    /\ \E resp \in FetchResponses :
          /\ fetch_trace' = Append(fetch_trace, resp)
          /\ IF TryEndpoint(resp).then = "return"
             THEN /\ fetch_ret' = [returned |-> TRUE, value |-> TryEndpoint(resp).value]
                  /\ pc' = "fetch_returned"
             ELSE /\ pc' = IF TryEndpoint(resp).then = "continue" THEN "fetch_loop" ELSE "fetch_raised"
                  /\ UNCHANGED fetch_ret
    /\ UNCHANGED <<ddVars, geoVars, mainVars>>

\* lines 204-205: the loop ran out of endpoints
FetchAllFailed ==
    /\ pc = "fetch_loop"
    /\ Len(fetch_trace) = Len(endpoints)
    /\ fetch_ret' = [returned |-> TRUE, value |-> <<>>]
    /\ pc' = "fetch_returned"
    /\ UNCHANGED <<fetch_trace, ddVars, geoVars, mainVars>>

NextFetch == FetchTryEndpoint \/ FetchAllFailed

SpecFetch == InitFetch /\ [][NextFetch]_vars

(***************************************************************************)
(* Naming: get_flag_emoji, the name format, create_proxy_groups            *)
(***************************************************************************)
UpperCase == <<"A", "B", "C", "D", "E", "F", "G", "H", "I", "J", "K", "L", "M",
               "N", "O", "P", "Q", "R", "S", "T", "U", "V", "W", "X", "Y", "Z">>

LowerCase == <<"a", "b", "c", "d", "e", "f", "g", "h", "i", "j", "k", "l", "m",
               "n", "o", "p", "q", "r", "s", "t", "u", "v", "w", "x", "y", "z">>

\* str.upper on one character
UpperChar(c) ==
    IF \E k \in 1..Len(LowerCase) : LowerCase[k] = c
    THEN UpperCase[CHOOSE k \in 1..Len(LowerCase) : LowerCase[k] = c]
    ELSE c

Upper(str) == [k \in 1..Len(str) |-> UpperChar(str[k])]

\* the code point order of the upper-case letters, as sorted() compares them
Ord(c) == CHOOSE k \in 1..Len(UpperCase) : UpperCase[k] = c

RECURSIVE StrLess(_, _)
StrLess(a, b) ==
    IF a = <<>> THEN b # <<>>
    ELSE IF b = <<>> THEN FALSE
    ELSE IF Head(a) = Head(b) THEN StrLess(Tail(a), Tail(b))
    ELSE Ord(Head(a)) < Ord(Head(b))

\* the flags table of lines 273-283, its entries for the codes of the model;
\* a glyph (flag, globe, fire, ...) is one character, written here by its name
flags == [code \in {SG, US, JP} |->
            IF code = SG THEN "flag-SG" ELSE IF code = US THEN "flag-US" ELSE "flag-JP"]

Globe == "globe"

get_flag_emoji(code) == IF Upper(code) \in DOMAIN flags THEN flags[Upper(code)] ELSE Globe

\* format(idx, "03d")
Pad3(k) ==
    LET d == Digits(k)
    IN IF Len(d) >= 3 THEN d ELSE [j \in 1..(3 - Len(d)) |-> "0"] \o d

\* f"{flag} {country_code}-{idx:03d}"
node_name(flag, code, k) == <<flag, " ">> \o code \o <<"-">> \o Pad3(k)

G_ember == <<"fire", " ", "e", "m", "b", "e", "r">>
G_all_fast == <<"globe-asia", " ", "zap">>
G_sg_fast == <<"flag-SG", " ", "zap">>
G_all_balance == <<"globe-asia", " ", "scales">>
G_sg_balance == <<"flag-SG", " ", "scales">>
DIRECT == <<"D", "I", "R", "E", "C", "T">>

create_proxy_groups_nofallback(all_names, sg_names) ==
    << [name |-> G_ember, type |-> "select",
        proxies |-> <<G_all_fast, G_sg_fast, G_all_balance, G_sg_balance>>],
       [name |-> G_all_fast, type |-> "url-test", proxies |-> all_names],
       [name |-> G_sg_fast, type |-> "url-test", proxies |-> sg_names],
       [name |-> G_all_balance, type |-> "load-balance", proxies |-> all_names],
       [name |-> G_sg_balance, type |-> "load-balance", proxies |-> sg_names] >>

create_proxy_groups(all_names, sg_names) ==
    << [name |-> G_ember, type |-> "select",
        proxies |-> <<G_all_fast, G_sg_fast, G_all_balance, G_sg_balance>>],
       [name |-> G_all_fast, type |-> "url-test", proxies |-> all_names],
       [name |-> G_sg_fast, type |-> "url-test",
        proxies |-> IF sg_names # <<>> THEN sg_names ELSE <<DIRECT>>],
       [name |-> G_all_balance, type |-> "load-balance", proxies |-> all_names],
       [name |-> G_sg_balance, type |-> "load-balance",
        proxies |-> IF sg_names # <<>> THEN sg_names ELSE <<DIRECT>>] >>

(***************************************************************************)
(* main                                                                    *)
(***************************************************************************)
\* download_maxmind_db: the ways lines 22-57 can end
DownloadCases == {"no_license_key", "http_error", "no_mmdb_in_archive", "exception", "extracted"}

download_maxmind_db(case) == case = "extracted"

\* line 307: the lines of sources.txt that are kept
LineKinds == {"url", "blank", "comment"}

KeptLines(lines) == SelectSeq(lines, LAMBDA l : l # "blank" /\ l # "comment")

\* dict.get(key, []) on country_nodes
Bucket(cn, code) == IF code \in DOMAIN cn THEN cn[code] ELSE <<>>

\* country_nodes[country].append(node)
BucketAppend(cn, code, node) ==
    [c \in DOMAIN cn \cup {code} |-> IF c = code THEN Append(Bucket(cn, code), node) ELSE cn[c]]

\* del country_nodes[code]
BucketDelete(cn, code) == [c \in DOMAIN cn \ {code} |-> cn[c]]

\* sorted(country_nodes.keys())
RECURSIVE SortedCodes_descending(_)
SortedCodes_descending(codes) ==
    IF codes = {} THEN <<>>
    ELSE LET top == CHOOSE c \in codes : \A d \in codes \ {c} : StrLess(d, c)
         IN <<top>> \o SortedCodes_descending(codes \ {top})

RECURSIVE SortedCodes(_)
SortedCodes(codes) ==
    IF codes = {} THEN <<>>
    ELSE LET least == CHOOSE c \in codes : \A d \in codes \ {c} : StrLess(c, d)
         IN <<least>> \o SortedCodes(codes \ {least})

\* the renaming loops of lines 379-384 and 394-398 over one bucket
RenameBucket(flag, code, bucket) ==
    [k \in 1..Len(bucket) |-> [bucket[k] EXCEPT !.name = PyStr(node_name(flag, code, k))]]

RECURSIVE RenameOthers(_, _)
RenameOthers(cn, codes) ==
    IF codes = <<>> THEN <<>>
    ELSE RenameBucket(get_flag_emoji(Head(codes)), Head(codes), cn[Head(codes)])
            \o RenameOthers(cn, Tail(codes))

NamesOf(ns) == [k \in 1..Len(ns) |-> ns[k].name.s]

\* the payloads an endpoint can answer main with
MainEntries ==
    {NonDict, Node(EmptyStr, PyInt(1), S_s), Node(S_h, Absent, S_s), Node(S_h, PyInt(1), S_s),
     Node(S_g, PyInt(1), S_s), Node(S_ip, PyInt(1), S_s)}

InitMain ==
    /\ pc = "main_start"
    /\ DedupIdle
    /\ GeoIdle
    /\ FetchIdle
    /\ MainIdle

Exit(reason) ==
    /\ pc' = "exited"
    /\ outcome' = reason

\* lines 291-294: the database file is there, or is downloaded
MainSetupDb ==
    /\ pc = "main_start"
    /\ \E exists \in BOOLEAN, case \in DownloadCases :
          IF ~exists /\ ~download_maxmind_db(case)
          THEN Exit("no_database")
          ELSE pc' = "db_ready" /\ UNCHANGED outcome
    /\ UNCHANGED <<ddVars, geoVars, fetchVars, urls, all_nodes, idx, country_nodes, located,
                   renamed_nodes, sg_node_names, all_node_names, output, clash_yaml>>

\* lines 297-302: GeoDetector(...) opens the database or raises
MainLoadDb ==
    /\ pc = "db_ready"
    /\ \E opens \in BOOLEAN :
          IF opens
          THEN /\ cache' = NewDetector.cache
               /\ stats' = NewDetector.stats
               /\ pc' = "geo_ready"
               /\ UNCHANGED outcome
          ELSE /\ Exit("database_not_loaded")
               /\ UNCHANGED <<cache, stats>>
    /\ UNCHANGED <<ddVars, dns_lookups, db_queries, first_ret, last_call, fetchVars, urls,
                   all_nodes, idx, country_nodes, located, renamed_nodes, sg_node_names,
                   all_node_names, output, clash_yaml>>

\* lines 305-311: sources.txt is read, or cannot be
MainReadSources ==
    /\ pc = "geo_ready"
    /\ \/ /\ Exit("sources_unreadable")
          /\ UNCHANGED urls
       \/ \E lines \in SeqsUpTo(LineKinds, MaxLines) :
             /\ urls' = KeptLines(lines)
             /\ pc' = "urls_read"
             /\ UNCHANGED outcome
    /\ UNCHANGED <<ddVars, geoVars, fetchVars, all_nodes, idx, country_nodes, located,
                   renamed_nodes, sg_node_names, all_node_names, output, clash_yaml>>

\* lines 314-327: fetch, stop on nothing, deduplicate; failed endpoints come
\* first, then one that answers with a list
MainFetch ==
    /\ pc = "urls_read"
    /\ \E failing \in 0..Len(endpoints), bad \in FailingResponses,
          list \in SeqsUpTo(MainEntries, MaxNodes) :
          LET resps == [k \in 1..Len(endpoints) |->
                            IF k <= failing THEN bad ELSE RespProxies(Tag(list))]
              fetched == fetch_via_subconverter(resps)
              run == DedupRun(DedupStart, fetched)
          IN /\ fetch_ret' = [returned |-> TRUE, value |-> fetched]
             /\ IF fetched = <<>>
                THEN /\ Exit("no_nodes_fetched")
                     /\ UNCHANGED <<ddVars, all_nodes>>
                ELSE /\ input' = fetched
                     /\ nodes' = fetched
                     /\ i' = Len(fetched) + 1
                     /\ seen' = run.seen
                     /\ unique_nodes' = run.unique_nodes
                     /\ results' = <<run.unique_nodes>>
                     /\ all_nodes' = run.unique_nodes
                     /\ pc' = "locate"
                     /\ UNCHANGED outcome
    /\ UNCHANGED <<geoVars, fetch_trace, urls, idx, country_nodes, located, renamed_nodes,
                   sg_node_names, all_node_names, output, clash_yaml>>

\* lines 329-347: one iteration of the location loop
MainLocate ==
    /\ pc = "locate"
    /\ idx <= Len(all_nodes)
    /\ LET node == all_nodes[idx]
           server == Get(node, "server")
       IN IF Falsy(server)
          THEN UNCHANGED <<cache, stats, country_nodes, located>>
          ELSE \E dnsAnswer \in DnsAnswers, dbAnswer \in DbAnswers :
                  LET r == get_location([cache |-> cache, stats |-> stats], server,
                                        dnsAnswer, dbAnswer)
                  IN /\ cache' = r.cache
                     /\ stats' = r.stats
                     /\ country_nodes' = BucketAppend(country_nodes, r.ret, node)
                     /\ located' = [o \in DOMAIN located \cup {node.oid} |->
                                        IF o = node.oid THEN r.ret ELSE located[o]]
    /\ idx' = idx + 1
    /\ UNCHANGED <<pc, ddVars, dns_lookups, db_queries, first_ret, last_call, fetchVars, urls,
                   all_nodes, renamed_nodes, sg_node_names, all_node_names, output, clash_yaml,
                   outcome>>

\* lines 349-413: Singapore first, the other countries in sorted order, then
\* the configuration; nothing is written when no node was named.  The prints
\* and get_detailed_info in between read the detector and change nothing.
MainRename ==
    /\ pc = "locate"
    /\ idx > Len(all_nodes)
    /\ LET sg_nodes == Bucket(country_nodes, SG)
           sg_renamed == RenameBucket("flag-SG", SG, sg_nodes)
           rest == IF sg_nodes # <<>> THEN BucketDelete(country_nodes, SG) ELSE country_nodes
           renamed == sg_renamed \o RenameOthers(rest, SortedCodes(DOMAIN rest))
       IN /\ country_nodes' = rest
          /\ renamed_nodes' = renamed
          /\ sg_node_names' = NamesOf(sg_renamed)
          /\ all_node_names' = NamesOf(renamed)
          /\ IF NamesOf(renamed) = <<>>
             THEN /\ Exit("no_valid_nodes")
                  /\ UNCHANGED output
             ELSE /\ output' = [proxies |-> renamed,
                                groups |-> create_proxy_groups(NamesOf(renamed), NamesOf(sg_renamed)),
                                rules |-> <<"GEOIP,PRIVATE,DIRECT", "MATCH,ember">>]
                  /\ pc' = "write"
                  /\ UNCHANGED outcome
    /\ UNCHANGED <<ddVars, geoVars, fetchVars, urls, all_nodes, idx, located, clash_yaml>>

\* line 419: open('clash.yaml', 'w') creates or truncates the file
MainOpenOutput ==
    /\ pc = "write"
    /\ clash_yaml' = [Untouched EXCEPT !.state = "open"]
    /\ pc' = "writing"
    /\ UNCHANGED <<ddVars, geoVars, fetchVars, urls, all_nodes, idx, country_nodes, located,
                   renamed_nodes, sg_node_names, all_node_names, output, outcome>>

\* lines 420-436: header and document are written, the file is closed, the
\* summary is printed
MainWriteOutput ==
    /\ pc = "writing"
    /\ clash_yaml' = [state |-> "complete", total |-> Len(renamed_nodes),
                      singapore |-> Len(sg_node_names), document |-> output]
    /\ pc' = "done"
    /\ outcome' = "summary_printed"
    /\ UNCHANGED <<ddVars, geoVars, fetchVars, urls, all_nodes, idx, country_nodes, located,
                   renamed_nodes, sg_node_names, all_node_names, output>>

NextMain ==
    \/ MainSetupDb
    \/ MainLoadDb
    \/ MainReadSources
    \/ MainFetch
    \/ MainLocate
    \/ MainRename
    \/ MainOpenOutput
    \/ MainWriteOutput

SpecMain == InitMain /\ [][NextMain]_vars

InitGeo ==
    /\ pc = "geo"
    /\ DedupIdle
    /\ GeoIdle
    /\ FetchIdle
    /\ MainIdle

\* a caller invokes get_location on the detector
GetLocationCall ==
    /\ pc = "geo"
    /\ stats.queries < MaxQueries
    /\ \E server \in GeoServers, dnsAnswer \in DnsAnswers, dbAnswer \in DbAnswers :
          Observe(server, dnsAnswer, dbAnswer,
                  get_location([cache |-> cache, stats |-> stats], server, dnsAnswer, dbAnswer))
    /\ UNCHANGED <<pc, ddVars, fetchVars, mainVars>>

NextGeo == GetLocationCall

SpecGeo == InitGeo /\ [][NextGeo]_vars

InitDedup ==
    /\ pc = "dedup_loop"
    /\ \E xs \in SeqsUpTo(DedupEntries, MaxLen) : input = Tag(xs)
    /\ nodes = input
    /\ i = 1
    /\ seen = {}
    /\ unique_nodes = <<>>
    /\ results = <<>>
    /\ GeoIdle
    /\ FetchIdle
    /\ MainIdle

DedupLoop ==
    /\ pc = "dedup_loop"
    /\ i <= Len(nodes)
    /\ LET st == DedupStep([seen |-> seen, unique_nodes |-> unique_nodes], nodes[i])
       IN /\ seen' = st.seen
          /\ unique_nodes' = st.unique_nodes
    /\ i' = i + 1
    /\ UNCHANGED <<pc, input, nodes, results, geoVars, fetchVars, mainVars>>

DedupReturn ==
    /\ pc = "dedup_loop"
    /\ i > Len(nodes)
    /\ results' = Append(results, unique_nodes)
    /\ pc' = "dedup_returned"
    /\ UNCHANGED <<input, nodes, i, seen, unique_nodes, geoVars, fetchVars, mainVars>>

\* deduplicate_nodes applied to its own result
DedupAgain ==
    /\ pc = "dedup_returned"
    /\ Len(results) = 1
    /\ nodes' = results[1]
    /\ i' = 1
    /\ seen' = {}
    /\ unique_nodes' = <<>>
    /\ pc' = "dedup_loop"
    /\ UNCHANGED <<input, results, geoVars, fetchVars, mainVars>>

NextDedup == DedupLoop \/ DedupReturn \/ DedupAgain

SpecDedup == InitDedup /\ [][NextDedup]_vars

(***************************************************************************)
(* Properties of deduplicate_nodes (SpecDedup)                             *)
(***************************************************************************)
\* the identity key as the tuple (server, port, type) of the record's values
IdentityTuple(node) == <<Get(node, "server"), Get(node, "port"), Get(node, "type")>>

InOutput(out, j) == \E k \in 1..Len(out) : out[k].oid = j

FirstOfItsTuple(j) ==
    /\ input[j].dict
    /\ \A h \in 1..(j - 1) : input[h].dict => IdentityTuple(input[h]) # IdentityTuple(input[j])

\* C1: the result of deduplicate_nodes(X) is a subsequence of X holding, for
\* each identity tuple (server, port, type) among the dict entries of X,
\* exactly the first dict entry with that tuple, and no non-dict entry.
C1_FirstPerIdentityTuple ==
    Len(results) >= 1 =>
        LET out == results[1]
        IN /\ \A k \in 1..Len(out) : out[k].oid \in 1..Len(input) /\ out[k] = input[out[k].oid]
           /\ \A k \in 1..(Len(out) - 1) : out[k].oid < out[k + 1].oid
           /\ \A j \in 1..Len(input) : InOutput(out, j) <=> FirstOfItsTuple(j)

\* C2: inside the loop a record is taken for a duplicate exactly when an
\* earlier record of the input has the same tuple (server, port, type).
C2_DuplicateIffTupleEqual ==
    (pc = "dedup_loop" /\ results = <<>> /\ i <= Len(nodes) /\ nodes[i].dict) =>
        ((node_key(nodes[i]) \in seen) <=>
            \E j \in 1..(i - 1) :
                nodes[j].dict /\ IdentityTuple(nodes[j]) = IdentityTuple(nodes[i]))

\* C3: deduplicate_nodes is idempotent: applied to its own result it returns
\* that result, element for element and in the same order.
C3_Idempotent == Len(results) = 2 => results[2] = results[1]

\* a three-entry input with a discarded duplicate and a record without server
C3_Witness ==
    /\ Len(results) = 2
    /\ Len(input) = 3
    /\ Len(results[1]) = 2
    /\ \E k \in 1..Len(input) : input[k].dict /\ input[k].server = Absent

(***************************************************************************)
(* Properties of GeoDetector.get_location (SpecGeo)                        *)
(***************************************************************************)
\* C4: get_location is memoizing: at most one name lookup and one database
\* query per server, made by its first call; a later call with the same
\* server makes neither, returns what the first call returned and adds one
\* to cache_hits; a cache entry is never changed or removed.
C4_Memoizing ==
    /\ \A s \in DOMAIN dns_lookups : dns_lookups[s] <= 1
    /\ \A s \in DOMAIN db_queries : db_queries[s] <= 1
    /\ \A s \in DOMAIN first_ret : s \in DOMAIN cache /\ cache[s] = first_ret[s].ret
    /\ (last_call.made /\ last_call.prior = 0) =>
            /\ ~last_call.hit
            /\ last_call.hits_after = last_call.hits_before
    /\ (last_call.made /\ last_call.prior = 1) =>
            /\ last_call.dns = 0 /\ last_call.db = 0
            /\ ~last_call.raised
            /\ last_call.ret = first_ret[last_call.server].ret
            /\ last_call.hits_after = last_call.hits_before + 1

\* a repeated call of a hostname whose first call failed to resolve
C4_Witness ==
    /\ last_call.made /\ last_call.prior = 1 /\ last_call.server = S_h
    /\ dns_lookups[S_h] = 1 /\ db_queries[S_h] = 0
    /\ last_call.ret = UN
    /\ stats.cache_hits >= 2

CallFailed ==
    \/ last_call.dns = 1 /\ last_call.dnsAnswer = "gaierror"
    \/ last_call.db = 1 /\ (last_call.dbKind # "response" \/ last_call.dbIso = NoValue)

\* C5: get_location never raises; when the name does not resolve, the address
\* is not in the database, the database gives no country code or the query
\* fails otherwise, it returns UN and UN is in the cache under the raw server.
C5_NeverRaises ==
    last_call.made =>
        /\ ~last_call.raised
        /\ last_call.server \in DOMAIN cache
        /\ cache[last_call.server] = last_call.ret
        /\ (~last_call.hit /\ CallFailed) => last_call.ret = UN

\* a call whose database query failed with an exception other than not-found
C5_Witness ==
    /\ last_call.made /\ ~last_call.hit
    /\ last_call.db = 1 /\ last_call.dbKind = "Exception"
    /\ last_call.ret = UN

(***************************************************************************)
(* Properties of fetch_via_subconverter (SpecFetch)                        *)
(***************************************************************************)
\* status 200 and a parsed document with a 'proxies' key
HasProxiesKey(resp) == ~resp.raises /\ resp.status = 200 /\ resp.has_proxies

\* ... whose value has a length
HasProxiesList(resp) == HasProxiesKey(resp) /\ resp.sized

\* C9 as claimed: the endpoints are tried in order; the value of the first
\* response with status 200 and a 'proxies' key is returned and nothing is
\* contacted after it; any other response moves on to the next endpoint; the
\* empty list is returned exactly when all three failed; nothing is raised.
C9_FirstWithProxiesKey ==
    /\ pc # "fetch_raised"
    /\ pc = "fetch_loop" => \A k \in 1..Len(fetch_trace) : ~HasProxiesKey(fetch_trace[k])
    /\ pc = "fetch_returned" =>
        LET n == Len(fetch_trace)
        IN /\ \A k \in 1..(n - 1) : ~HasProxiesKey(fetch_trace[k])
           /\ HasProxiesKey(fetch_trace[n]) => fetch_ret.value = fetch_trace[n].proxies
           /\ ~HasProxiesKey(fetch_trace[n]) => n = Len(endpoints) /\ fetch_ret.value = <<>>
           /\ fetch_ret.value = <<>> <=>
                (n = Len(endpoints) /\ \A k \in 1..n : ~HasProxiesKey(fetch_trace[k]))

\* C9 as amended: the value returned is that of the first response with status
\* 200 and a 'proxies' key whose value has a length; a 'proxies' value without
\* a length moves on to the next endpoint like any other failure; when all
\* three failed the empty list is returned; nothing is raised.
C9_FirstWithProxiesList ==
    /\ pc # "fetch_raised"
    /\ pc = "fetch_loop" => \A k \in 1..Len(fetch_trace) : ~HasProxiesList(fetch_trace[k])
    /\ pc = "fetch_returned" =>
        LET n == Len(fetch_trace)
        IN /\ fetch_ret.returned
           /\ \A k \in 1..(n - 1) : ~HasProxiesList(fetch_trace[k])
           /\ HasProxiesList(fetch_trace[n]) => fetch_ret.value = fetch_trace[n].proxies
           /\ ~HasProxiesList(fetch_trace[n]) => n = Len(endpoints) /\ fetch_ret.value = <<>>

\* two endpoints fail, one of them with a 'proxies' value without a length,
\* and the third one answers with a node
C9_Witness ==
    /\ pc = "fetch_returned"
    /\ Len(fetch_trace) = 3
    /\ fetch_trace[1] = RespUnsized
    /\ fetch_trace[2] = RespStatus(503)
    /\ HasProxiesList(fetch_trace[3])
    /\ Len(fetch_ret.value) = 1

(***************************************************************************)
(* Properties of main (SpecMain)                                           *)
(***************************************************************************)
Renamed == pc \in {"write", "writing", "done"} \/ outcome = "no_valid_nodes"

DigitValue(c) == CHOOSE v \in 0..9 : Digit(v) = c

RECURSIVE DecimalValue(_)
DecimalValue(d) ==
    IF d = <<>> THEN 0 ELSE 10 * DecimalValue(SubSeq(d, 1, Len(d) - 1)) + DigitValue(d[Len(d)])

\* d is k written in decimal, filled with zeros on the left up to 3 digits
IsPadded3(d, k) ==
    /\ Len(d) >= 3
    /\ \A j \in 1..Len(d) : IsDigit(d[j])
    /\ Len(d) > 3 => d[1] # "0"
    /\ DecimalValue(d) = k

CodeOf(node) == located[node.oid]

\* the rank of the k-th renamed node inside its country
RankInCountry(k) ==
    Cardinality({j \in 1..k : CodeOf(renamed_nodes[j]) = CodeOf(renamed_nodes[k])})

IsNameOf(name, code, k) ==
    /\ Len(name) >= Len(code) + 6
    /\ name[1] = get_flag_emoji(code)
    /\ name[2] = " "
    /\ SubSeq(name, 3, 2 + Len(code)) = code
    /\ name[3 + Len(code)] = "-"
    /\ IsPadded3(SubSeq(name, 4 + Len(code), Len(name)), k)

\* C6: the renamed sequence holds the located nodes, the SG nodes first in
\* encountered order, then the other codes in ascending order and encountered
\* order inside a code; the k-th node of a country is named
\* "<flag> <CODE>-<k on 3 digits>"; all_node_names are the names in that
\* order and sg_node_names the names of the SG nodes.
C6_ClassifiedAndNamed ==
    Renamed =>
        LET n == Len(renamed_nodes)
        IN /\ {renamed_nodes[k].oid : k \in 1..n} = DOMAIN located
           /\ n = Cardinality(DOMAIN located)
           /\ \A k \in 1..(n - 1) :
                LET a == renamed_nodes[k]
                    b == renamed_nodes[k + 1]
                IN \/ CodeOf(a) = SG /\ CodeOf(b) # SG
                   \/ CodeOf(a) = CodeOf(b) /\ a.oid < b.oid
                   \/ CodeOf(a) # SG /\ CodeOf(b) # SG /\ StrLess(CodeOf(a), CodeOf(b))
           /\ \A k \in 1..n :
                IsNameOf(renamed_nodes[k].name.s, CodeOf(renamed_nodes[k]), RankInCountry(k))
           /\ all_node_names = [k \in 1..n |-> renamed_nodes[k].name.s]
           /\ sg_node_names =
                NamesOf(SelectSeq(renamed_nodes, LAMBDA node : CodeOf(node) = SG))

\* three nodes are written: one of JP met first, then two of SG, which are
\* named SG-001 and SG-002 and come before it
C6_Witness ==
    /\ pc = "done"
    /\ Len(renamed_nodes) = 3
    /\ CodeOf(renamed_nodes[1]) = SG /\ CodeOf(renamed_nodes[2]) = SG
    /\ CodeOf(renamed_nodes[3]) = JP
    /\ renamed_nodes[3].oid < renamed_nodes[1].oid
    /\ all_node_names[2] = <<"flag-SG", " ", "S", "G", "-", "0", "0", "2">>

\* C7: a record whose server or port is absent or empty puts no key into the
\* deduplicator's seen set, is never passed to get_location and never
\* appears in the renamed output.
C7_IncompleteRecordsTakeNoPart ==
    \A k \in 1..Len(input) :
        (input[k].dict /\ (Falsy(input[k].server) \/ Falsy(input[k].port))) =>
            /\ node_key(input[k]) \notin seen
            /\ input[k].oid \notin DOMAIN located
            /\ \A j \in 1..Len(renamed_nodes) : renamed_nodes[j].oid # input[k].oid

\* C8: a run ends with clash.yaml written completely, with at least one
\* proxy and the summary printed, or ends early with the file untouched; a
\* failed precondition (no database, no URLs, no nodes fetched, no usable
\* node) stops the run before the steps that follow it.
C8_CompleteOrNothing ==
    /\ pc = "exited" => clash_yaml.state = "untouched"
    /\ pc = "done" =>
            /\ clash_yaml.state = "complete"
            /\ Len(clash_yaml.document.proxies) >= 1
            /\ outcome = "summary_printed"
    /\ outcome \in {"no_database", "database_not_loaded", "sources_unreadable"} =>
            ~fetch_ret.returned
    /\ fetch_ret.returned => urls # <<>>
    /\ outcome = "no_nodes_fetched" => idx = 1 /\ located = <<>>
    /\ outcome = "no_valid_nodes" => clash_yaml.state = "untouched"

\* C10: in a written output the proxies' names are pairwise distinct, each
\* node was renamed once, every group's member list is non-empty and holds
\* only assigned names, group names or DIRECT, and the two SG groups list
\* exactly the SG names, or DIRECT alone when there is none.
C10_NamesAndGroups ==
    clash_yaml.state = "complete" =>
        LET doc == clash_yaml.document
            n == Len(doc.proxies)
            names == NamesOf(doc.proxies)
            sg == NamesOf(SelectSeq(doc.proxies, LAMBDA node : CodeOf(node) = SG))
            groupNames == {doc.groups[g].name : g \in 1..Len(doc.groups)}
        IN /\ \A j, k \in 1..n : j # k => names[j] # names[k]
           /\ \A j, k \in 1..n : j # k => doc.proxies[j].oid # doc.proxies[k].oid
           /\ \A k \in 1..n :
                \E o \in 1..Len(all_nodes) :
                    /\ all_nodes[o].oid = doc.proxies[k].oid
                    /\ doc.proxies[k] = [all_nodes[o] EXCEPT !.name = PyStr(names[k])]
                    /\ all_nodes[o].name # PyStr(names[k])
           /\ \A g \in 1..Len(doc.groups) :
                /\ doc.groups[g].proxies # <<>>
                /\ \A m \in 1..Len(doc.groups[g].proxies) :
                      doc.groups[g].proxies[m] \in
                          {names[k] : k \in 1..n} \cup groupNames \cup {DIRECT}
                /\ doc.groups[g].name \in {G_sg_fast, G_sg_balance} =>
                      doc.groups[g].proxies = IF sg # <<>> THEN sg ELSE <<DIRECT>>
           /\ \E g \in 1..Len(doc.groups) : doc.groups[g].name = G_sg_fast
           /\ \E g \in 1..Len(doc.groups) : doc.groups[g].name = G_sg_balance

\* an output of two nodes of one country other than SG: the SG groups hold
\* DIRECT alone
C10_Witness ==
    /\ clash_yaml.state = "complete"
    /\ Len(clash_yaml.document.proxies) = 2
    /\ \A k \in 1..2 : CodeOf(clash_yaml.document.proxies[k]) = US
    /\ clash_yaml.document.groups[3].proxies = <<DIRECT>>

====
